---- MODULE Spec2Model ----
(***************************************************************************)
(* Recipe resolution pipeline of plateful-app: the POST /generate-recipe   *)
(* handler (search, candidate failover loop, equipment and ingredient      *)
(* gates, duplicate check and create) and the equipment filter it calls.   *)
(*                                                                         *)
(* Text is modelled as a sequence of tokens (words); String.includes is    *)
(* contiguous-subsequence search and toLowerCase maps every token to its   *)
(* lower-case form.  A URL is a sequence of tokens whose first token is    *)
(* the scheme when it has one.                                             *)
(***************************************************************************)
EXTENDS Integers, Sequences, FiniteSets, TLC

(***************************************************************************)
(* Bounds of the model.                                                    *)
(***************************************************************************)
MaxCands == 2

\* Ids that generateId hands out before the requests that store a recipe stop arriving.
MaxRecipes == 3

\* Two requests in flight: the least number that can race on the duplicate check.
Reqs == {1, 2}

(***************************************************************************)
(* Strings.                                                                *)
(***************************************************************************)
\* String.prototype.toLowerCase on one token
LowerTok(t) ==
  CASE t = "A" -> "a"
    [] t = "B" -> "b"
    [] t = "Air" -> "air"
    [] t = "Fryer" -> "fryer"
    [] t = "Shrimp" -> "shrimp"
    [] t = "Sous" -> "sous"
    [] t = "Vide" -> "vide"
    [] OTHER -> t

toLowerCase(s) == [k \in DOMAIN s |-> LowerTok(s[k])]

\* String.prototype.includes: sub occurs in s as a contiguous run
includes(s, sub) ==
  \E k \in 0..(Len(s) - Len(sub)) : SubSeq(s, k + 1, k + Len(sub)) = sub

\* Array.prototype.join(' ') of a list of token sequences
RECURSIVE join(_)
join(list) == IF list = <<>> THEN <<>> ELSE Head(list) \o join(Tail(list))

\* new URL(url) throws a TypeError unless the text is an absolute URL
ParsesAsURL(url) == Len(url) >= 2 /\ url[1] = "https://"

(***************************************************************************)
(* Equipment filter.                                                       *)
(***************************************************************************)
SPECIALTY_EQUIPMENT ==
  << <<"sous", "vide">>, <<"sous", "vide", "machine">>, <<"air", "fryer">>,
     <<"smoker">>, <<"stand", "mixer">>, <<"pasta", "maker">>,
     <<"bread", "maker">>, <<"juicer">>, <<"spiralizer">>, <<"tagine">>,
     <<"paella", "pan">> >>

Range(f) == {f[x] : x \in DOMAIN f}

detectEquipmentInRecipe(recipeData) ==
  LET instructionsText == toLowerCase(join(recipeData.instructions))
      found == {kw \in Range(SPECIALTY_EQUIPMENT) :
                  includes(instructionsText, toLowerCase(kw))}
      sousVide == IF (includes(instructionsText, <<"sous", "vide">>)
                        \/ includes(instructionsText, <<"sous-vide">>))
                     /\ ~\E eq \in found : includes(toLowerCase(eq), <<"sous", "vide">>)
                  THEN {<<"sous", "vide">>} ELSE {}
  IN IF instructionsText = <<>> THEN {} ELSE found \cup sousVide

requiresUnavailableEquipment(recipeData, profile) ==
  IF profile.unavailableEquipment = {} THEN FALSE
  ELSE LET recipeEquipment == detectEquipmentInRecipe(recipeData)
           unavailableLower == {toLowerCase(eq) : eq \in profile.unavailableEquipment}
       IN \E eq \in recipeEquipment : \E un \in unavailableLower :
            \/ toLowerCase(eq) = un
            \/ includes(toLowerCase(eq), un)
            \/ includes(un, toLowerCase(eq))

(***************************************************************************)
(* Equipment filter, the copy in apps/api/services/equipment-filter.ts,    *)
(* which is the module that '../services/equipment-filter' names from      *)
(* apps/api/api/generate-recipe.                                           *)
(***************************************************************************)
\* lines 18-29 (the accent of the keyword with "saute" is left out)
equipmentKeywords ==
  << <<"instant", "pot">>, <<"pressure", "cooker">>, <<"slow", "cooker">>, <<"crock-pot">>,
     <<"rice", "cooker">>, <<"dutch", "oven">>, <<"cast", "iron">>, <<"stockpot">>,
     <<"saucepan">>, <<"soup", "pot">>, <<"skillet">>, <<"frying", "pan">>,
     <<"saute", "pan">>, <<"wok">>, <<"grill", "pan">>, <<"roasting", "pan">>,
     <<"stand", "mixer">>, <<"hand", "mixer">>, <<"food", "processor">>, <<"blender">>,
     <<"immersion", "blender">>, <<"baking", "sheet">>, <<"baking", "dish">>,
     <<"muffin", "tin">>, <<"loaf", "pan">>, <<"cake", "pan">>, <<"pie", "dish">>,
     <<"air", "fryer">>, <<"toaster", "oven">>, <<"steamer">>, <<"grill">>,
     <<"charcoal", "grill">>, <<"gas", "grill">>, <<"smoker">>, <<"outdoor", "grill">>,
     <<"juicer">>, <<"spiralizer">>, <<"mandoline">>, <<"pasta", "maker">>,
     <<"bread", "maker">>, <<"meat", "thermometer">>, <<"instant-read", "thermometer">>,
     <<"kitchen", "scale">>, <<"mortar", "and", "pestle">>, <<"tagine">>,
     <<"paella", "pan">>, <<"carbon", "steel", "pan">>, <<"stainless", "steel", "pan">> >>

\* detectEquipmentInRecipe of that copy: title, description and instructions are
\* joined into allText
detectEquipmentInRecipe_allText(recipeData) ==
  LET allText == toLowerCase(join(<<recipeData.title, recipeData.description>>
                                    \o recipeData.instructions))
  IN {keyword \in Range(equipmentKeywords) : includes(allText, toLowerCase(keyword))}

\* requiresUnavailableEquipment of that copy
requiresUnavailableEquipment_allText(recipeData, profile) ==
  IF profile.unavailableEquipment = {} THEN FALSE
  ELSE LET recipeEquipment == detectEquipmentInRecipe_allText(recipeData)
           unavailableLower == {toLowerCase(eq) : eq \in profile.unavailableEquipment}
       IN \E eq \in recipeEquipment : \E unavailable \in unavailableLower :
            \/ includes(toLowerCase(eq), unavailable)
            \/ includes(unavailable, toLowerCase(eq))

(***************************************************************************)
(* Inputs: profiles, recipes, URLs, errors.                                *)
(***************************************************************************)
Users == {"u1", "u2"}
Convs == {"c1"}

\* profile = resource || null : a missing profile has present = FALSE
\* cookingProficiency is 0 when the profile has none
NoProfile ==
  [present |-> FALSE, isPremium |-> FALSE, allergens |-> {}, restrictions |-> {},
   unavailableEquipment |-> {}, cookingProficiency |-> 0]

ProfileSet ==
  {NoProfile,
   [NoProfile EXCEPT !.present = TRUE, !.isPremium = TRUE, !.restrictions = {<<"Shrimp">>}]}
  \cup [present : {TRUE}, isPremium : BOOLEAN, allergens : {{<<"Shrimp">>}},
        restrictions : {{}}, unavailableEquipment : {{<<"Air", "Fryer">>}},
        cookingProficiency : {0}]

\* intent.searchQuery as it stands at line 161, after the pantry enhancement of lines
\* 106-118 when that applies
IntentQuery == <<"tofu", "soup">>

\* the profiles and intent queries of the requests whose search calls are observed
SearchProfiles ==
  {NoProfile}
  \cup [present : {TRUE}, isPremium : BOOLEAN, allergens : {{}, {<<"Shrimp">>}},
        restrictions : {{}}, unavailableEquipment : {{}, {<<"Air", "Fryer">>}},
        cookingProficiency : {0, 1, 2, 3, 4}]
SearchQueries == {IntentQuery, <<"soup", "with", "rice">>}

\* let recipeData; (undefined until formatRecipe returns)
NoRecipe == [ingredients |-> <<>>, instructions |-> <<>>, substitutions |-> 0, defined |-> FALSE]

Recipe(ingredients, instructions) ==
  [ingredients |-> ingredients, instructions |-> instructions, substitutions |-> 0,
   defined |-> TRUE]

RShrimp == Recipe(<< <<"shrimp">>, <<"rice">> >>, << <<"boil">> >>)
RTofu == Recipe(<< <<"tofu">>, <<"rice">> >>, << <<"boil">> >>)
RTofuFryer == Recipe(<< <<"tofu">> >>, << <<"heat", "the", "Air">>, <<"Fryer">> >>)

\* what formatRecipe can return, and what substituteIngredients can return
FormatOutputs == {RShrimp, RTofu, RTofuFryer}
SubstituteOutputs == {RShrimp, RTofu, RTofuFryer}

UrlSet == {<<"https://", "a">>, <<"https://", "A">>, <<"a.com">>}

\* searchRecipe returns a non-empty list or throws
CandLists == UNION {[1..n -> UrlSet] : n \in 1..MaxCands}
SearchThrows == [ok |-> FALSE, results |-> <<>>]
SearchOutcomes == {SearchThrows} \cup {[ok |-> TRUE, results |-> l] : l \in CandLists}

NoError == <<"<null>">>
ErrForbidden == <<"HTTP", "403">>
\* line 240: `Scraped content too short (${scrapeResult.content?.length || 0} chars)`
LengthText(length) ==
  CASE length = 0 -> "0" [] length = 199 -> "199" [] length = 200 -> "200"
    [] OTHER -> "many"

ErrTooShort(length) == <<"Scraped", "content", "too", "short", LengthText(length), "chars">>
ErrFormat == <<"Recipe", "formatting", "timed", "out">>
ErrEquipment == <<"Recipe", "requires", "unavailable", "equipment">>
ErrUnable == <<"Unable", "to", "substitute", "disallowed", "ingredients">>
ErrIncomplete == <<"Substitution", "did", "not", "remove", "all", "disallowed", "ingredients">>
ErrSubstitute == <<"substitution", "call", "failed">>

MinContentLength == 200
ContentLengths == {0, 199, 200}
ScrapeOutcomes ==
  {[threw |-> TRUE, length |-> 0]} \cup {[threw |-> FALSE, length |-> n] : n \in ContentLengths}

\* Content acquisition: the attempts of one call of scrapeRecipeContent.  An attempt
\* ends with a page, with a 4xx response, or with a network or 5xx error.
MaxScrapeAttempts == 2
ErrNetwork == <<"Network", "timeout">>
HttpResponses ==
  {[kind |-> "ok", length |-> n] : n \in ContentLengths}
  \cup {[kind |-> "4xx", length |-> 0], [kind |-> "transient", length |-> 0]}

FormatOutcomes ==
  {[threw |-> TRUE, recipeData |-> NoRecipe]}
  \cup {[threw |-> FALSE, recipeData |-> rd] : rd \in FormatOutputs}

SubstituteOutcomes ==
  {[threw |-> TRUE, recipeData |-> NoRecipe, substitutions |-> 0]}
  \cup {[threw |-> FALSE, recipeData |-> [rd EXCEPT !.substitutions = n], substitutions |-> n] :
          rd \in SubstituteOutputs, n \in {0, 1}}

(***************************************************************************)
(* searchRecipe: from the text of the search response to the candidates.   *)
(* The text is a list of mentions, each with a URL (or none) and a title   *)
(* (or none), written either as a JSON array or as prose.                  *)
(***************************************************************************)
MaxMentions == 2

\* recipe-search.ts lines 94-112 (the first and the last entry stand for the list)
blocked_domains == {"thekitchn.com", "theyummybowl.com"}

\* URL.hostname: the token after the scheme, or the first token without one
hostname(url) == IF url[1] = "https://" THEN url[2] ELSE url[1]

\* the URL of a mention; <<>> when the mention has none
MentionUrls ==
  {<<>>}
  \cup {<<"https://", "thekitchn.com", "recipe">>, <<"https://", "example.org", "recipe">>,
        <<"https://", "example.org", "about">>, <<"example.org", "recipe">>}

Mentions == [url : MentionUrls, title : BOOLEAN]

ResultTexts ==
  {[kind |-> "empty", mentions |-> <<>>]}
  \cup {[kind |-> k, mentions |-> m] :
          k \in {"json", "prose"}, m \in UNION {[1..n -> Mentions] : n \in 0..MaxMentions}}

\* Array.prototype.slice(0, n)
slice(list, n) == SubSeq(list, 1, IF Len(list) < n THEN Len(list) ELSE n)

\* line 194: results.filter(r => r && r.url && r.title)
validResults(parsed) ==
  LET valid(r) == r.url # <<>> /\ r.title
  IN SelectSeq(parsed, valid)

\* lines 211-226: the first pattern that matches anything gives the matches; the
\* first three patterns need a scheme, the fourth takes a bare domain too
urlMatches(resultText) ==
  LET present(r) == r.url # <<>>
      withScheme(r) == r.url # <<>> /\ r.url[1] = "https://"
      all == SelectSeq(resultText.mentions, present)
      schemed == SelectSeq(resultText.mentions, withScheme)
      matched == IF schemed # <<>> THEN schemed ELSE all
  IN [k \in DOMAIN matched |-> matched[k].url]

\* lines 245-253: recipe-like URLs, by keyword or by known site
recipeUrls(urls) ==
  LET recipeLike(url) ==
        \/ includes(toLowerCase(url), <<"recipe">>)
        \/ includes(toLowerCase(url), <<"cooking">>)
        \/ includes(toLowerCase(url), <<"food">>)
        \/ hostname(url) \in {"allrecipes.com", "foodnetwork.com", "thekitchn.com"}
  IN SelectSeq(urls, recipeLike)

\* lines 259-260: url.startsWith('http') ? url : `https://${url}`
cleanUrl(url) == IF url[1] = "https://" THEN url ELSE <<"https://">> \o url

\* searchRecipe throws: no candidates
Throws == [ok |-> FALSE, results |-> <<>>, titles |-> <<>>]

\* the fallback that keeps the recipe-like URLs only
extractUrls_RecipeLikeOnly(resultText) ==
  LET finalUrls == recipeUrls(urlMatches(resultText))
  IN IF finalUrls # <<>>
     THEN [ok |-> TRUE, results |-> [k \in DOMAIN finalUrls |-> cleanUrl(finalUrls[k])],
           titles |-> [k \in DOMAIN finalUrls |-> "searchQuery"]]
     ELSE Throws

\* lines 204-272: the fallback that extracts URLs from the text; the title of each
\* candidate is the searchQuery argument
extractUrls(resultText) ==
  LET matches == urlMatches(resultText)
      finalUrls == IF recipeUrls(matches) # <<>> THEN recipeUrls(matches)
                   ELSE slice(matches, 5)
  IN IF matches # <<>>
     THEN [ok |-> TRUE, results |-> [k \in DOMAIN finalUrls |-> cleanUrl(finalUrls[k])],
           titles |-> [k \in DOMAIN finalUrls |-> "searchQuery"]]
     ELSE Throws

\* lines 142-272: the candidates searchRecipe returns for a response text, or a throw
searchRecipe(resultText) ==
  IF resultText.kind = "empty" THEN Throws
  ELSE IF resultText.kind = "json" /\ validResults(resultText.mentions) # <<>>
  THEN LET valid == validResults(resultText.mentions)
       IN [ok |-> TRUE, results |-> [k \in DOMAIN valid |-> valid[k].url],
           titles |-> [k \in DOMAIN valid |-> "title"]]
  ELSE extractUrls(resultText)

(***************************************************************************)
(* Ingredient substitution service (detection).                            *)
(***************************************************************************)
detectDisallowedIngredients(recipeData, profile) ==
  LET terms == {toLowerCase(t) : t \in profile.allergens \cup profile.restrictions}
  IN {ing \in Range(recipeData.ingredients) :
        \E t \in terms : includes(toLowerCase(ing), t)}

(***************************************************************************)
(* State.                                                                  *)
(*   req[r]   the locals of request r of POST /generate-recipe, with the   *)
(*            position of the handler in pc, and history fields            *)
(*   recipes  the stored records of the recipes container                  *)
(*   nextId   the ids generateId has handed out so far                     *)
(*   conversations  the stored records of the chatConversations container  *)
(***************************************************************************)
VARIABLES req, recipes, nextId, conversations

vars == <<req, recipes, nextId, conversations>>

NoUrl == <<>>
NoRecord == [id |-> 0, userID |-> "", sourceUrlLower |-> NoUrl]

NoFailure == [at |-> 0, err |-> NoError]

\* the caller's deadline has not expired
NoDeadline == [expired |-> FALSE, at |-> 0]

\* PATCH /recipes/:recipeID has read no record
NoPatch == [id |-> 0]

\* the recipes and profiles handed to the equipment gate when it is called alone
EquipmentTexts == {<<>>, <<"tofu">>, <<"Air", "Fryer", "tofu">>}
EquipmentInstructions ==
  {<<>>, << <<"boil">> >>, << <<"heat", "the", "Air">>, <<"Fryer">> >>,
   << <<"use", "a", "skillet">> >>, << <<"cook", "sous", "vide">> >>}
EquipmentRecipes ==
  [title : EquipmentTexts, description : EquipmentTexts, instructions : EquipmentInstructions]
EquipmentProfiles ==
  {[NoProfile EXCEPT !.present = TRUE, !.unavailableEquipment = un] :
     un \in {{}, {<<"Air", "Fryer">>}, {<<"skillet">>}, {<<"Sous", "Vide">>}}}

\* no call of requiresUnavailableEquipment has been observed
NoGateCall ==
  [made |-> FALSE,
   recipeData |-> [title |-> <<>>, description |-> <<>>, instructions |-> <<>>],
   profile |-> NoProfile, result |-> FALSE]

\* no call of searchRecipe is in flight
NoRequest ==
  [sent |-> FALSE, query |-> <<>>, allowSubstitutions |-> FALSE, restrictionsNote |-> "",
   proficiencyNote |-> "", equipmentNote |-> {}]

\* PATCH has changed no record yet
NoPatchCall ==
  [made |-> FALSE, recipe |-> NoPatch, result |-> NoPatch,
   body |-> [userID |-> "", isSaved |-> [given |-> FALSE, value |-> FALSE],
             userPortionSize |-> [type |-> "undefined", n |-> 0]]]

\* no call of searchRecipe has been observed
NoCall ==
  [made |-> FALSE, resultText |-> [kind |-> "empty", mentions |-> <<>>],
   result |-> [ok |-> FALSE, results |-> <<>>, titles |-> <<>>]]

Idle ==
  [pc |-> "idle", userID |-> "", conversationID |-> "", profile |-> NoProfile,
   searchResults |-> <<>>, i |-> 0, lastError |-> NoError, recipeData |-> NoRecipe,
   successfulUrl |-> NoUrl, existingRecipes |-> {}, outcome |-> "", recipe |-> NoRecord,
   attemptedUrls |-> <<>>, details |-> <<>>, message |-> "",
   \* intent.status
   intentStatus |-> "",
   \* scrapeResult.content.length of the current candidate
   content |-> 0,
   \* history: the URLs fetched so far, the last failed attempt, what formatRecipe
   \* returned for the current candidate, what the first detection found in it, whether
   \* a substitution was reported for it, the id created, the requests that had
   \* finished when this one started, the lower-case form of the URL it succeeded on,
   \* whether the caller's deadline expired and during which candidate
   fetched |-> <<>>, failure |-> NoFailure, formatted |-> NoRecipe, detectRan |-> FALSE,
   disallowed |-> {}, substituted |-> FALSE, created |-> 0, startedAfter |-> {},
   urlLower |-> NoUrl, deadline |-> NoDeadline,
   \* the candidate echoed in the 201 response (a candidate is its URL)
   searchResult |-> NoUrl,
   \* history: the calls of searchRecipe so far, each with its allowSubstitutions
   \* argument and whether it returned a non-empty list
   searches |-> <<>>,
   \* one observed call of searchRecipe: the response text and what was returned
   call |-> NoCall,
   \* one observed update of PATCH: the record read, the body and the record written
   patchCall |-> NoPatchCall,
   \* intent.searchQuery, and the call of searchRecipe in flight: what it sends
   searchQuery |-> <<>>, request |-> NoRequest,
   \* one observed call of requiresUnavailableEquipment: its arguments and its result
   gateCall |-> NoGateCall,
   \* history: the containers this request has written to
   writes |-> {},
   \* the attempts made so far by the call of scrapeRecipeContent in flight, and
   \* history: the attempts of the last call that ended
   attempts |-> <<>>, lastCall |-> <<>>,
   \* PATCH /recipes/:recipeID: the record read and modified, not yet replaced
   patch |-> NoPatch]

(***************************************************************************)
(* The candidate loop, from one await to the next.                         *)
(***************************************************************************)
\* lines 426-431: the handler's outer catch
OuterCatch(s) == [s EXCEPT !.pc = "respond", !.outcome = "error"]

\* line 323: lastError?.message || 'Unknown error'
LastErrorText(s) == IF s.lastError = NoError THEN <<"Unknown", "error">> ELSE s.lastError

\* line 326: errorMsg = lastError?.message || ''
ErrorMsg(s) == IF s.lastError = NoError THEN <<>> ELSE s.lastError

\* the classification with the network test before the 403 test
userMessage_NetworkFirst(errorMsg) ==
  IF includes(errorMsg, <<"formatting", "timed", "out">>)
       \/ includes(errorMsg, <<"format", "recipe">>) THEN "formatting took too long"
  ELSE IF includes(errorMsg, <<"timeout">>) \/ includes(errorMsg, <<"Network">>)
  THEN "network timeout"
  ELSE IF includes(errorMsg, <<"403">>) \/ includes(errorMsg, <<"forbidden">>)
  THEN "websites are blocking access"
  ELSE IF includes(errorMsg, <<"404">>) THEN "pages not found"
  ELSE "unable to access"

\* lines 328-339: the user-facing message chosen from the text of lastError
userMessage(errorMsg) ==
  IF includes(errorMsg, <<"formatting", "timed", "out">>)
       \/ includes(errorMsg, <<"format", "recipe">>) THEN "formatting took too long"
  ELSE IF includes(errorMsg, <<"403">>) \/ includes(errorMsg, <<"forbidden">>)
  THEN "websites are blocking access"
  ELSE IF includes(errorMsg, <<"timeout">>) \/ includes(errorMsg, <<"Network">>)
  THEN "network timeout"
  ELSE IF includes(errorMsg, <<"404">>) THEN "pages not found"
  ELSE "unable to access"

\* the test after the loop without successfulUrl: recipeData left by a rejected
\* candidate counts as a success
AfterLoop_AnyRecipeData(s) ==
  IF ~s.recipeData.defined
  THEN [s EXCEPT !.pc = "respond", !.outcome = "exhausted",
                 !.attemptedUrls = s.searchResults, !.details = LastErrorText(s)]
  ELSE [s EXCEPT !.pc = "query"]

\* lines 321-348: after the loop
AfterLoop(s) ==
  IF ~s.recipeData.defined \/ s.successfulUrl = NoUrl
  THEN [s EXCEPT !.pc = "respond", !.outcome = "exhausted",
                 !.attemptedUrls = s.searchResults, !.details = LastErrorText(s),
                 !.message = userMessage(ErrorMsg(s))]
  ELSE [s EXCEPT !.pc = "query"]

\* lines 230-236: loop test, new URL(searchResult.url), call of scrapeRecipeContent
LoopHead(s) ==
  IF s.i > Len(s.searchResults) THEN AfterLoop(s)
  ELSE IF ~ParsesAsURL(s.searchResults[s.i]) THEN OuterCatch(s)
  ELSE [s EXCEPT !.pc = "scrape", !.fetched = Append(@, s.searchResults[s.i]),
                 !.content = 0, !.formatted = NoRecipe, !.detectRan = FALSE, !.disallowed = {},
                 !.substituted = FALSE]

\* the loop without i++: the failed candidate is attempted again
Continue_SameCandidate(s) == LoopHead(s)

\* continue (and the end of the catch block at line 318): i++
Continue(s) == LoopHead([s EXCEPT !.i = @ + 1])

\* history: candidate s.i failed with err
Failed(s, err) == [s EXCEPT !.failure = [at |-> s.i, err |-> err]]

\* Accept without the break: the loop goes on to the next candidate
Accept_NoBreak(s) == Continue([s EXCEPT !.successfulUrl = s.searchResults[s.i]])

\* lines 308-310: successfulUrl = searchResult.url; break
Accept(s) == AfterLoop([s EXCEPT !.successfulUrl = s.searchResults[s.i]])

\* lines 312-318: catch (scrapeError)
ScrapeCatch(s, err) == Continue(Failed([s EXCEPT !.lastError = err], err))

\* lines 254-258: catch (formatError)
FormatCatch(s, err) == Continue(Failed([s EXCEPT !.lastError = err], err))

\* the equipment gate rejects without recording the error
EquipmentRejected_NoLastError(s) == Continue(Failed(s, ErrEquipment))

\* lines 266-270: the equipment gate rejects
EquipmentRejected(s) ==
  Continue(Failed([s EXCEPT !.lastError = ErrEquipment], ErrEquipment))

\* lines 285-290, 294-298, 299-304: the ingredient gate rejects
IngredientRejected(s, err) == Continue(Failed([s EXCEPT !.lastError = err], err))

\* line 273: the condition of the ingredient gate
IngredientGateActive(profile) ==
  profile.present /\ (profile.allergens # {} \/ profile.restrictions # {})

\* the scrape result is passed on without the test of its length
AfterScrape_NoValidation(s, res) ==
  IF res.threw THEN ScrapeCatch(s, ErrForbidden)
  ELSE [s EXCEPT !.pc = "format", !.content = res.length]

\* lines 236-241: the scrape result and its validation
AfterScrape(s, res) ==
  IF res.threw THEN ScrapeCatch(s, ErrForbidden)
  ELSE IF res.length = 0 \/ res.length < MinContentLength
  THEN ScrapeCatch(s, ErrTooShort(res.length))
  ELSE [s EXCEPT !.pc = "format", !.content = res.length]

\* lines 250-310: the gates that follow formatRecipe
AfterFormat(s, res) ==
  IF res.threw THEN FormatCatch(s, ErrFormat)
  ELSE
    LET s1 == [s EXCEPT !.recipeData = res.recipeData, !.formatted = res.recipeData]
    IN IF s.profile.present /\ requiresUnavailableEquipment(s1.recipeData, s.profile)
       THEN EquipmentRejected(s1)
       ELSE IF IngredientGateActive(s.profile)
       THEN LET disallowed == detectDisallowedIngredients(s1.recipeData, s.profile)
                s2 == [s1 EXCEPT !.detectRan = TRUE, !.disallowed = disallowed]
            IN IF disallowed # {} THEN [s2 EXCEPT !.pc = "substitute"] ELSE Accept(s2)
       ELSE Accept(s1)

\* the handler without the second detection
SubstitutionAccepted_NoRecheck(substitutions, remainingDisallowed) == substitutions > 0

\* the handler without the test of substitutions.length
SubstitutionAccepted_AnyCount(substitutions, remainingDisallowed) == remainingDisallowed = {}

\* lines 283 and 293-294: what the handler requires of a substitution result
SubstitutionAccepted(substitutions, remainingDisallowed) ==
  substitutions > 0 /\ remainingDisallowed = {}

\* lines 280-304: after substituteIngredients
AfterSubstitute(s, res) ==
  IF res.threw THEN IngredientRejected(s, ErrSubstitute)
  ELSE
    LET s1 == [s EXCEPT !.recipeData = res.recipeData,
                        !.substituted = res.substitutions > 0]
        remainingDisallowed == detectDisallowedIngredients(s1.recipeData, s.profile)
    IN IF SubstitutionAccepted(res.substitutions, remainingDisallowed) THEN Accept(s1)
       ELSE IF res.substitutions = 0 THEN IngredientRejected(s1, ErrUnable)
       ELSE IngredientRejected(s1, ErrIncomplete)

\* generate-recipe line 156: profileForSearch = profile && profile.isPremium ? profile : null
profileForSearch(profile) ==
  IF profile.present /\ profile.isPremium THEN profile ELSE NoProfile

\* recipe-search.ts lines 18-37: modifiedSearchQuery
modifiedSearchQuery(searchQuery, profile) ==
  IF profile.present /\ profile.cookingProficiency = 1
  THEN searchQuery \o <<"easy", "kid", "friendly">>
  ELSE IF profile.present /\ profile.cookingProficiency = 2
  THEN searchQuery \o <<"easy">>
  ELSE searchQuery

\* recipe-search.ts lines 18-84: the query and the notes of the prompt that
\* searchRecipe(searchQuery, profile, allowSubstitutions) sends
searchRequest(searchQuery, profile, allowSubstitutions) ==
  [sent |-> TRUE,
   query |-> modifiedSearchQuery(searchQuery, profile),
   allowSubstitutions |-> allowSubstitutions,
   restrictionsNote |->
     IF profile.present /\ profile.isPremium
          /\ (profile.allergens # {} \/ profile.restrictions # {})
     THEN IF allowSubstitutions THEN "NOTE" ELSE "IMPORTANT"
     ELSE "",
   proficiencyNote |->
     IF profile.present /\ profile.isPremium /\ profile.cookingProficiency \in {1, 2}
     THEN "IMPORTANT"
     ELSE IF profile.present /\ profile.isPremium /\ profile.cookingProficiency \in {4, 5}
     THEN "NOTE"
     ELSE "",
   equipmentNote |->
     IF profile.present /\ profile.isPremium THEN profile.unavailableEquipment ELSE {}]

\* the relaxed call is given the query of the call before it
RelaxedCall_ModifiedQuery(s, pc) ==
  [s EXCEPT !.pc = pc,
            !.request = searchRequest(s.request.query, profileForSearch(s.profile), TRUE)]

\* generate-recipe lines 172 and 203: searchRecipe(intent.searchQuery, profileForSearch, true)
RelaxedCall(s, pc) ==
  [s EXCEPT !.pc = pc,
            !.request = searchRequest(s.searchQuery, profileForSearch(s.profile), TRUE)]

\* hasRestrictions without the premium test
hasRestrictions_NoPremium(profile) ==
  profile.present /\ (profile.allergens # {} \/ profile.restrictions # {})

\* lines 168 and 199: hasRestrictions, which allows the relaxed search
hasRestrictions(profile) ==
  profile.present /\ profile.isPremium
    /\ (profile.allergens # {} \/ profile.restrictions # {})

\* history: searchRecipe(query, profileForSearch, allowSubstitutions) returned res
Searched(s, allowSubstitutions, res) ==
  [s EXCEPT !.searches = Append(@, [relaxed |-> allowSubstitutions,
                                    found |-> res.ok /\ res.results # <<>>])]

\* lines 176-181, 187-193, 206-212, 214-219: the 500 response of a failed search
SearchFailed(s) ==
  [s EXCEPT !.pc = "respond", !.outcome = "searchFailed", !.request = NoRequest]

\* lines 226-232: the loop starts at the first candidate; the history of the searches
\* ends here
FirstCandidate(s) == LoopHead([s EXCEPT !.i = 1, !.searches = <<>>, !.request = NoRequest])

\* lines 196-220: the test for an empty list
AfterSearches(s) ==
  IF s.searchResults = <<>>
  THEN IF hasRestrictions(s.profile) THEN RelaxedCall(s, "relaxedEmpty")
       ELSE SearchFailed(s)
  ELSE FirstCandidate(s)

\* lines 159-194: the strict search returns or throws
AfterStrictSearch(s, res) ==
  IF res.ok THEN AfterSearches([s EXCEPT !.searchResults = res.results])
  ELSE IF hasRestrictions(s.profile) THEN RelaxedCall(s, "relaxed")
  ELSE SearchFailed(s)

\* lines 171-181 (after the strict search threw) and 202-212 (after it returned an
\* empty list): the relaxed search returns or throws
AfterRelaxedSearch(s, res) ==
  IF ~res.ok THEN SearchFailed(s)
  ELSE IF s.pc = "relaxed" THEN AfterSearches([s EXCEPT !.searchResults = res.results])
  ELSE FirstCandidate([s EXCEPT !.searchResults = res.results])

(***************************************************************************)
(* Actions of POST /generate-recipe.                                       *)
(***************************************************************************)
Done(q) == req[q].pc = "done"

\* The steps before the duplicate query read and write only the locals of their own
\* request, so they commute with every step of another request: the model runs them
\* for one request at a time.  The storage steps (Query, Resolve) interleave freely.
InLoop ==
  {"search", "relaxed", "relaxedEmpty", "scrape", "format", "substitute", "query", "respond"}

\* lines 141-147: the conversation is replaced with the extracted intent
Decided(conversation) == [conversation EXCEPT !.decidedDish = TRUE, !.status = "decided"]

\* lines 407-411: the conversation is replaced with the link to the recipe
RecipeFound(conversation, recipeID) ==
  [conversation EXCEPT !.recipeID = recipeID, !.status = "recipe_found"]

\* lines 26-149: request body, profile snapshot, intent, update of the conversation.
\* The profile is an input of the model, so body.userID is not read before the
\* duplicate query: it is drawn there.
\* intent.status: one status that proceeds, and off_topic
IntentStatuses == {"specific_dish", "off_topic"}

\* the handler without the off-topic test
OffTopic_Never(status) == FALSE

\* line 121: if (intent.status === 'off_topic')
OffTopic(status) == status = "off_topic"

\* lines 121-128: the 400 response of an off-topic conversation; otherwise the call of
\* the strict search at line 161 is in flight when the step ends.
Began(c, p, searchQuery, status) ==
  IF OffTopic(status)
  THEN [Idle EXCEPT !.pc = "respond", !.outcome = "offTopic", !.conversationID = c,
                    !.intentStatus = status]
  ELSE [Idle EXCEPT !.pc = "search", !.conversationID = c, !.profile = p,
                    !.intentStatus = status,
                    !.startedAfter = {q \in Reqs : Done(q)},
                    !.writes = {"chatConversations"},
                    !.searchQuery = searchQuery,
                    !.request = searchRequest(searchQuery, profileForSearch(p), FALSE)]

Start(r) ==
  /\ req[r].pc = "idle"
  /\ \A q \in Reqs : req[q].pc \notin InLoop
  /\ \E c \in Convs, p \in ProfileSet, status \in IntentStatuses :
       /\ req' = [req EXCEPT ![r] = Began(c, p, IntentQuery, status)]
       /\ conversations' = [conversations EXCEPT
                              ![c] = IF OffTopic(status) THEN @ ELSE Decided(@)]
  /\ UNCHANGED <<recipes, nextId>>

\* the same request with the profiles and queries of the search calls
StartSearch(r) ==
  /\ req[r].pc = "idle"
  /\ \A q \in Reqs : req[q].pc \notin InLoop
  /\ \E c \in Convs, p \in SearchProfiles, searchQuery \in SearchQueries :
       /\ req' = [req EXCEPT ![r] = Began(c, p, searchQuery, "specific_dish")]
       /\ conversations' = [conversations EXCEPT ![c] = Decided(@)]
  /\ UNCHANGED <<recipes, nextId>>

\* line 161: searchRecipe(intent.searchQuery, profileForSearch, false) returns or throws
Search(r) ==
  /\ req[r].pc = "search"
  /\ \E res \in SearchOutcomes :
       req' = [req EXCEPT ![r] = AfterStrictSearch(Searched(@, FALSE, res), res)]
  /\ UNCHANGED <<recipes, nextId, conversations>>

\* lines 172 and 203: searchRecipe(intent.searchQuery, profileForSearch, true) returns
\* or throws
SearchRelaxed(r) ==
  /\ req[r].pc \in {"relaxed", "relaxedEmpty"}
  /\ \E res \in SearchOutcomes :
       req' = [req EXCEPT ![r] = AfterRelaxedSearch(Searched(@, TRUE, res), res)]
  /\ UNCHANGED <<recipes, nextId, conversations>>

\* line 236: scrapeRecipeContent returns or throws
Scrape(r) ==
  /\ req[r].pc = "scrape"
  /\ \E res \in ScrapeOutcomes : req' = [req EXCEPT ![r] = AfterScrape(@, res)]
  /\ UNCHANGED <<recipes, nextId, conversations>>

\* the call of scrapeRecipeContent has ended after these attempts
ScrapeEnded(s, attempts) == [s EXCEPT !.attempts = <<>>, !.lastCall = attempts]

\* scrapeRecipeContent: after one attempt; only a network or 5xx error is tried again
AfterAttempt(s, response) ==
  LET attempts == Append(s.attempts, response.kind)
  IN IF response.kind = "ok"
     THEN ScrapeEnded(AfterScrape(s, [threw |-> FALSE, length |-> response.length]), attempts)
     ELSE IF response.kind = "4xx" THEN ScrapeEnded(ScrapeCatch(s, ErrForbidden), attempts)
     ELSE IF Len(attempts) < MaxScrapeAttempts THEN [s EXCEPT !.attempts = attempts]
     ELSE ScrapeEnded(ScrapeCatch(s, ErrNetwork), attempts)

\* line 236 with the call opened: one attempt of scrapeRecipeContent
ScrapeAttempt(r) ==
  /\ req[r].pc = "scrape"
  /\ \E response \in HttpResponses : req' = [req EXCEPT ![r] = AfterAttempt(@, response)]
  /\ UNCHANGED <<recipes, nextId, conversations>>

\* line 253: formatRecipe returns or throws
Format(r) ==
  /\ req[r].pc = "format"
  /\ \E res \in FormatOutcomes : req' = [req EXCEPT ![r] = AfterFormat(@, res)]
  /\ UNCHANGED <<recipes, nextId, conversations>>

\* line 280: substituteIngredients returns or throws
Substitute(r) ==
  /\ req[r].pc = "substitute"
  /\ \E res \in SubstituteOutcomes : req' = [req EXCEPT ![r] = AfterSubstitute(@, res)]
  /\ UNCHANGED <<recipes, nextId, conversations>>

\* the key without toLowerCase
SourceUrlLower_AsIs(s) == s.successfulUrl

\* line 356
SourceUrlLower(s) == toLowerCase(s.successfulUrl)

\* the query without the userID condition
IsDuplicate_AnyUser(rec, userID, sourceUrlLower) == rec.sourceUrlLower = sourceUrlLower

\* line 359: WHERE c.userID = @userID AND c.sourceUrlLower = @sourceUrlLower
IsDuplicate(rec, userID, sourceUrlLower) ==
  rec.userID = userID /\ rec.sourceUrlLower = sourceUrlLower

\* line 418: searchResults.find(r => r.url === successfulUrl) || searchResults[0]
successfulSearchResult(s) ==
  LET found == {k \in 1..Len(s.searchResults) : s.searchResults[k] = s.successfulUrl}
  IN IF found # {} THEN s.searchResults[CHOOSE k \in found : \A j \in found : k <= j]
     ELSE IF s.searchResults # <<>> THEN s.searchResults[1]
     ELSE NoUrl

\* The locals the handler still reads after the loop; the others are dead from here on.
\* The candidate for the response is a function of locals that no longer change, so
\* it is taken here.
Resolving(s) ==
  [Idle EXCEPT !.pc = "resolve", !.conversationID = s.conversationID,
               !.recipeData = s.recipeData, !.successfulUrl = s.successfulUrl,
               !.startedAfter = s.startedAfter, !.urlLower = toLowerCase(s.successfulUrl),
               !.writes = s.writes, !.searchResult = successfulSearchResult(s)]

\* lines 356-365: the duplicate query
Query(r) ==
  /\ req[r].pc = "query"
  /\ \E u \in Users :
       req' = [req EXCEPT ![r] =
                 [Resolving(@) EXCEPT
                    !.userID = u,
                    !.existingRecipes =
                       {rec \in recipes : IsDuplicate(rec, u, SourceUrlLower(req[r]))}]]
  /\ UNCHANGED <<recipes, nextId, conversations>>

\* lines 380-395: the new record
NewRecipe(s, recipeID) ==
  [id |-> recipeID, userID |-> s.userID, sourceUrlLower |-> SourceUrlLower(s),
   conversationID |-> s.conversationID, recipeData |-> s.recipeData, isSaved |-> FALSE,
   hasSubstitutions |-> s.recipeData.substitutions > 0,
   \* no userPortionSize property: 0
   userPortionSize |-> 0]

Key(rec) == [id |-> rec.id, userID |-> rec.userID, sourceUrlLower |-> rec.sourceUrlLower]

\* generateId('recipe'): an id that no earlier call returned
generateId == nextId + 1

\* the reuse that links the record whatever it holds
NeedsLink_Always(recipe) == TRUE

\* line 374: if (!recipe.conversationID)
NeedsLink(recipe) == recipe.conversationID = ""

\* lines 367-399: reuse the existing record or create one
Resolve(r) ==
  /\ req[r].pc = "resolve"
  /\ IF req[r].existingRecipes # {}
     THEN \E rec \in req[r].existingRecipes :
            /\ req' = [req EXCEPT ![r] =
                         [@ EXCEPT !.pc = "respond", !.outcome = "success",
                                   !.recipe = Key(rec),
                                   !.writes = IF NeedsLink(rec)
                                              THEN @ \cup {"recipes"} ELSE @]]
            /\ IF NeedsLink(rec)
               THEN recipes' = {IF x.id = rec.id
                                THEN [rec EXCEPT !.conversationID = req[r].conversationID]
                                ELSE x : x \in recipes}
               ELSE recipes' = recipes
            /\ nextId' = nextId
     ELSE LET new == NewRecipe(req[r], generateId)
          IN /\ recipes' = recipes \cup {new}
             /\ nextId' = new.id
             /\ req' = [req EXCEPT ![r] = [@ EXCEPT !.pc = "respond", !.outcome = "success",
                                                    !.recipe = Key(new), !.created = new.id,
                                                    !.writes = @ \cup {"recipes"}]]
  /\ UNCHANGED conversations

\* lines 401-413 on success, the link from the conversation to the recipe, then the
\* response (342-347, 420-424, 428-431); the locals of the request are gone
Respond(r) ==
  /\ req[r].pc = "respond"
  /\ req' = [req EXCEPT ![r] =
               [Idle EXCEPT !.pc = "done", !.userID = req[r].userID,
                            !.outcome = IF req[r].outcome = "success" THEN "success"
                                        ELSE "failed",
                            !.recipe = req[r].recipe, !.created = req[r].created,
                            !.startedAfter = req[r].startedAfter,
                            !.urlLower = req[r].urlLower]]
  /\ conversations' =
       IF req[r].outcome = "success"
       THEN [conversations EXCEPT ![req[r].conversationID] = RecipeFound(@, req[r].recipe.id)]
       ELSE conversations
  /\ UNCHANGED <<recipes, nextId>>

\* what the loop can leave in recipeData when it accepts a candidate
AcceptedRecipes == {RTofu, [RTofu EXCEPT !.substitutions = 1]}

\* lines 26-322 in one step: a request whose loop accepts a candidate arrives at the
\* duplicate check with its recipeData and successfulUrl
Accepts(r) ==
  /\ req[r].pc = "idle"
  /\ nextId < MaxRecipes
  /\ \E c \in Convs, recipeData \in AcceptedRecipes, url \in {u \in UrlSet : ParsesAsURL(u)} :
       /\ req' = [req EXCEPT ![r] = [Idle EXCEPT !.pc = "query", !.conversationID = c,
                                     !.recipeData = recipeData, !.successfulUrl = url,
                                     !.startedAfter = {q \in Reqs : Done(q)},
                                     !.writes = {"chatConversations"}]]
       /\ conversations' = [conversations EXCEPT ![c] = Decided(@)]
  /\ UNCHANGED <<recipes, nextId>>

\* the texts lastError can hold when the loop ends: one or two of these phrases
ErrorPhrases ==
  {<<"formatting", "timed", "out">>, <<"format", "recipe">>, <<"403">>, <<"forbidden">>,
   <<"Forbidden">>, <<"timeout">>, <<"Network">>, <<"network">>, <<"404">>, <<"page">>}
LastErrors ==
  {NoError} \cup ErrorPhrases \cup {p1 \o p2 : p1 \in ErrorPhrases, p2 \in ErrorPhrases}

\* lines 26-348 in one step: a request whose loop accepts no candidate arrives at the
\* test after the loop with its lastError
Exhausts(r) ==
  /\ req[r].pc = "idle"
  /\ \E c \in Convs, lastError \in LastErrors :
       /\ req' = [req EXCEPT ![r] =
                    AfterLoop([Idle EXCEPT !.conversationID = c,
                                           !.searchResults = << <<"https://", "a">> >>,
                                           !.i = 2, !.lastError = lastError,
                                           !.writes = {"chatConversations"}])]
       /\ conversations' = [conversations EXCEPT ![c] = Decided(@)]
  /\ UNCHANGED <<recipes, nextId>>

(***************************************************************************)
(* The other operations on the stored recipes: POST /chat/load-recipe,     *)
(* POST /chat/save-edited-recipe and DELETE /recipes/:recipeID, each run   *)
(* from request to response in one step while no other request is in       *)
(* flight.  A request that ends in an error response changes nothing and   *)
(* is left out.                                                            *)
(***************************************************************************)
\* part_001 lines 2069-2072
Editing(conversation, recipeID) ==
  [conversation EXCEPT !.status = "editing_recipe", !.editingRecipeID = recipeID]

\* part_001 lines 2027-2111
LoadRecipe(r) ==
  /\ \A q \in Reqs : req[q].pc = "idle"
  /\ \E c \in Convs, userID \in Users, recipeID \in 1..nextId :
       /\ \E recipe \in recipes : recipe.id = recipeID /\ recipe.userID = userID
       /\ conversations' = [conversations EXCEPT ![c] = Editing(@, recipeID)]
  /\ UNCHANGED <<req, recipes, nextId>>

\* part_001 lines 2218-2232: the record of an edited recipe; it has no conversationID,
\* no hasSubstitutions and no userPortionSize
EditedRecipe(originalRecipe, modifiedRecipeData, userID, recipeID) ==
  [id |-> recipeID, userID |-> userID, sourceUrlLower |-> originalRecipe.sourceUrlLower,
   conversationID |-> "", recipeData |-> modifiedRecipeData, isSaved |-> FALSE,
   hasSubstitutions |-> FALSE, userPortionSize |-> 0]

\* part_001 lines 2118-2260
SaveEditedRecipe(r) ==
  /\ \A q \in Reqs : req[q].pc = "idle"
  /\ nextId < MaxRecipes
  /\ \E c \in Convs, userID \in Users, res \in FormatOutcomes :
       /\ conversations[c].status = "editing_recipe"
       /\ conversations[c].editingRecipeID # 0
       /\ ~res.threw
       /\ \E originalRecipe \in recipes :
            /\ originalRecipe.id = conversations[c].editingRecipeID
            /\ originalRecipe.userID = userID
            /\ LET newRecipe == EditedRecipe(originalRecipe, res.recipeData, userID, generateId)
               IN /\ recipes' = recipes \cup {newRecipe}
                  /\ nextId' = newRecipe.id
                  /\ conversations' =
                       [conversations EXCEPT ![c] = RecipeFound(@, newRecipe.id)]
  /\ UNCHANGED req

\* part_000 lines 571-614
DeleteRecipe(r) ==
  /\ \A q \in Reqs : req[q].pc = "idle"
  /\ \E userID \in Users, recipeID \in 1..nextId :
       \E recipe \in recipes :
         /\ recipe.id = recipeID /\ recipe.userID = userID
         /\ recipes' = recipes \ {recipe}
  /\ UNCHANGED <<req, nextId, conversations>>

(***************************************************************************)
(* PATCH /recipes/:recipeID.  Timestamps (createdAt, updatedAt) are not     *)
(* part of the state.                                                      *)
(***************************************************************************)
\* the body of the request: isSaved is a boolean or absent, userPortionSize is a
\* number, null or absent
PatchBodies ==
  [userID : Users,
   isSaved : {[given |-> FALSE, value |-> FALSE]} \cup [given : {TRUE}, value : BOOLEAN],
   userPortionSize : {[type |-> "undefined", n |-> 0], [type |-> "null", n |-> 0],
                      [type |-> "number", n |-> 0], [type |-> "number", n |-> 2]}]

\* the portion size is written into recipeData
Patched_IntoRecipeData(recipe, body) ==
  [recipe EXCEPT !.isSaved = IF body.isSaved.given THEN body.isSaved.value ELSE @,
                 !.recipeData.substitutions = body.userPortionSize.n]

\* lines 542-553: the changes PATCH makes to the record it read
Patched(recipe, body) ==
  [recipe EXCEPT
     !.isSaved = IF body.isSaved.given THEN body.isSaved.value ELSE @,
     !.userPortionSize =
        IF body.userPortionSize.type = "number" /\ body.userPortionSize.n > 0
        THEN body.userPortionSize.n
        ELSE IF body.userPortionSize.type \in {"null", "undefined"} THEN 0
        ELSE @]

\* the records PATCH can read: stored by a resolution, then saved or not and with or
\* without a portion size of the user
PatchedRecipes ==
  {[id |-> 1, userID |-> u, sourceUrlLower |-> <<"https://", "a">>, conversationID |-> "c1",
    recipeData |-> recipeData, isSaved |-> saved,
    hasSubstitutions |-> recipeData.substitutions > 0, userPortionSize |-> n] :
      u \in Users, recipeData \in AcceptedRecipes, saved \in BOOLEAN, n \in {0, 2}}

\* lines 542-553 alone: the update of a record read for the user of the body
CallPatched(r) ==
  /\ req[r].pc = "idle"
  /\ \E recipe \in PatchedRecipes, body \in PatchBodies :
       /\ recipe.userID = body.userID
       /\ req' = [req EXCEPT ![r].patchCall =
                    [made |-> TRUE, recipe |-> recipe, body |-> body,
                     result |-> Patched(recipe, body)]]
  /\ UNCHANGED <<recipes, nextId, conversations>>

\* lines 519-540: the request and the read of container.item(recipeID, userID)
PatchRead(r) ==
  /\ req[r].pc = "idle"
  /\ \E recipeID \in 0..nextId, body \in PatchBodies :
       LET found == {rec \in recipes : rec.id = recipeID /\ rec.userID = body.userID}
       IN IF found = {}
          THEN req' = [req EXCEPT ![r] = [Idle EXCEPT !.pc = "done", !.outcome = "notFound"]]
          ELSE \E rec \in found :
                 req' = [req EXCEPT ![r] = [Idle EXCEPT !.pc = "patch",
                                                        !.patch = Patched(rec, body)]]
  /\ UNCHANGED <<recipes, nextId, conversations>>

\* lines 555-559: container.item(recipeID, userID).replace(recipe) and the response
PatchReplace(r) ==
  /\ req[r].pc = "patch"
  /\ recipes' = {IF x.id = req[r].patch.id THEN req[r].patch ELSE x : x \in recipes}
  /\ req' = [req EXCEPT ![r] = [Idle EXCEPT !.pc = "done", !.outcome = "patched"]]
  /\ UNCHANGED <<nextId, conversations>>

\* the handler has returned: the next request can arrive
Finish(r) ==
  /\ req[r].pc = "done"
  /\ req' = [req EXCEPT ![r] = Idle]
  /\ UNCHANGED <<recipes, nextId, conversations>>

\* chat.tsx lines 476-477: the caller's 120 s timer fires and aborts its fetch.  The
\* handler reads no abort signal, so the server side only changes in the history.
Deadline(r) ==
  /\ req[r].pc \in {"search", "relaxed", "relaxedEmpty", "scrape", "format", "substitute"}
  /\ ~req[r].deadline.expired
  /\ req' = [req EXCEPT ![r].deadline = [expired |-> TRUE, at |-> req[r].i]]
  /\ UNCHANGED <<recipes, nextId, conversations>>

\* recipe-search.ts lines 86-272: one call of searchRecipe, from the response of the
\* search API to the returned candidates
CallSearchRecipe(r) ==
  /\ req[r].pc = "idle"
  /\ ~req[r].call.made
  /\ \E resultText \in ResultTexts :
       req' = [req EXCEPT ![r].call = [made |-> TRUE, resultText |-> resultText,
                                      result |-> searchRecipe(resultText)]]
  /\ UNCHANGED <<recipes, nextId, conversations>>

\* part_001 lines 1000-1003: a conversation is created with status 'exploring'
NewConversation ==
  [status |-> "exploring", decidedDish |-> FALSE, recipeID |-> 0, editingRecipeID |-> 0]

Init ==
  /\ req = [r \in Reqs |-> Idle]
  /\ recipes = {}
  /\ nextId = 0
  /\ conversations = [c \in Convs |-> NewConversation]

Next ==
  \E r \in Reqs :
    \/ Start(r)
    \/ Search(r)
    \/ SearchRelaxed(r)
    \/ Scrape(r)
    \/ Format(r)
    \/ Substitute(r)
    \/ Query(r)
    \/ Resolve(r)
    \/ Respond(r)

Spec == Init /\ [][Next]_vars

\* One resolution request and the deadline of its caller.
NextDeadline ==
  \E r \in {1} :
    \/ Start(r)
    \/ Search(r)
    \/ SearchRelaxed(r)
    \/ Scrape(r)
    \/ Format(r)
    \/ Substitute(r)
    \/ Query(r)
    \/ Resolve(r)
    \/ Respond(r)
    \/ Deadline(r)

SpecDeadline == Init /\ [][NextDeadline]_vars

\* One resolution request with the attempts of content acquisition.
NextAcquisition ==
  \E r \in {1} :
    \/ Start(r)
    \/ Search(r)
    \/ SearchRelaxed(r)
    \/ ScrapeAttempt(r)
    \/ Format(r)
    \/ Substitute(r)
    \/ Query(r)
    \/ Resolve(r)
    \/ Respond(r)

SpecAcquisition == Init /\ [][NextAcquisition]_vars

\* The resolver of one resolution request after the other, and PATCH requests
\* beside them.
NextStore ==
  \/ \E r \in {1} :
       \/ Accepts(r)
       \/ Query(r)
       \/ Resolve(r)
       \/ Respond(r)
       \/ Finish(r)
  \/ \E r \in {2} :
       \/ PatchRead(r)
       \/ PatchReplace(r)
       \/ Finish(r)

SpecStore == Init /\ [][NextStore]_vars

\* generate-recipe line 266 with the module its import names: one call of
\* requiresUnavailableEquipment(recipeData, profile)
CallRequiresUnavailableEquipment(r) ==
  /\ req[r].pc = "idle"
  /\ \E recipeData \in EquipmentRecipes, profile \in EquipmentProfiles :
       req' = [req EXCEPT ![r].gateCall =
                 [made |-> TRUE, recipeData |-> recipeData, profile |-> profile,
                  result |-> requiresUnavailableEquipment_allText(recipeData, profile)]]
  /\ UNCHANGED <<recipes, nextId, conversations>>

\* The equipment gate alone, over the recipes and profiles above.
NextEquipment == \E r \in {1} : CallRequiresUnavailableEquipment(r)

SpecEquipment == Init /\ [][NextEquipment]_vars

\* One request up to the end of its searches, over the profiles with a cooking
\* proficiency.
NextSearchCalls ==
  \E r \in {1} :
    \/ StartSearch(r)
    \/ Search(r)
    \/ SearchRelaxed(r)

SpecSearchCalls == Init /\ [][NextSearchCalls]_vars

\* The operations that create, link and delete stored recipes, one after the other
\* (PATCH, which does neither, is in SpecStore).
NextLibrary ==
  \E r \in {1} :
    \/ Accepts(r)
    \/ Query(r)
    \/ Resolve(r)
    \/ Respond(r)
    \/ Finish(r)
    \/ LoadRecipe(r)
    \/ SaveEditedRecipe(r)
    \/ DeleteRecipe(r)

SpecLibrary == Init /\ [][NextLibrary]_vars

\* The exhaustion response, over the texts of lastError.
NextExhaustion ==
  \E r \in {1} :
    \/ Exhausts(r)
    \/ Respond(r)
    \/ Finish(r)

SpecExhaustion == Init /\ [][NextExhaustion]_vars

\* The update that PATCH makes, over the records and the bodies above.
NextPatched == \E r \in {1} : CallPatched(r)

SpecPatched == Init /\ [][NextPatched]_vars

\* searchRecipe alone, over every response text of the bounds.
NextSearchRecipe == \E r \in {1} : CallSearchRecipe(r)

SpecSearchRecipe == Init /\ [][NextSearchRecipe]_vars

(***************************************************************************)
(* Properties.                                                             *)
(***************************************************************************)
\* The loop of request r has ended in Success: a candidate passed every gate.
Accepted(r) == req[r].pc = "query"

\* Request r has a stored recipe to return.
Resolved(r) == req[r].pc \in {"respond", "done"} /\ req[r].outcome = "success"

\* The dedup key of a resolved request.
KeyOf(r) == [userID |-> req[r].userID, sourceUrlLower |-> req[r].urlLower]

StoredFor(key) ==
  {rec \in recipes : rec.userID = key.userID /\ rec.sourceUrlLower = key.sourceUrlLower}

HasConstraints(profile) ==
  profile.present /\ (profile.allergens # {} \/ profile.restrictions # {})

\* C1: for a premium profile with an allergen or a restriction, the recipe accepted by
\* the loop (the substituted one when substitution ran) has no disallowed ingredient.
C1_AcceptedHasNoDisallowed ==
  \A r \in Reqs :
    (Accepted(r) /\ req[r].profile.isPremium /\ HasConstraints(req[r].profile))
      => detectDisallowedIngredients(req[r].recipeData, req[r].profile) = {}

C1_Witness ==
  \E r \in Reqs :
    /\ Accepted(r) /\ req[r].profile.isPremium /\ req[r].profile.allergens # {}
    /\ req[r].formatted = RShrimp
    /\ req[r].recipeData.ingredients = RTofu.ingredients

\* C2: for a profile with unavailable equipment, the recipe accepted by the loop does
\* not require unavailable equipment.
C2_AcceptedNeedsNoUnavailableEquipment ==
  \A r \in Reqs :
    (Accepted(r) /\ req[r].profile.present /\ req[r].profile.unavailableEquipment # {})
      => ~requiresUnavailableEquipment(req[r].recipeData, req[r].profile)

\* C3: a candidate in which detection found something is accepted only with at least
\* one reported substitution and a clean second detection, hence modified; any other
\* result of the substitution step rejects it and moves the loop to the next candidate.
C3_AcceptedAfterDetection ==
  \A r \in Reqs :
    (Accepted(r) /\ req[r].disallowed # {})
      => /\ req[r].substituted
         /\ detectDisallowedIngredients(req[r].recipeData, req[r].profile) = {}
         /\ req[r].recipeData # req[r].formatted

C3_SubstituteStep ==
  \A r \in Reqs :
    (req[r].pc = "substitute" /\ req'[r] # req[r])
      => \/ req'[r].pc = "query"
         \/ /\ req'[r].i = req[r].i + 1
            /\ req'[r].successfulUrl = NoUrl
            /\ req'[r].failure.at = req[r].i
            /\ req'[r].lastError \in {ErrSubstitute, ErrUnable, ErrIncomplete}
            /\ req'[r].pc \in {"scrape", "respond"}

C3_ViolationsNeverAcceptedUnmodified ==
  [] C3_AcceptedAfterDetection /\ [][C3_SubstituteStep]_vars

C3_Witness ==
  \E r \in Reqs :
    /\ Accepted(r) /\ req[r].disallowed # {} /\ req[r].substituted
    /\ req[r].i = 2 /\ req[r].failure.err \in {ErrUnable, ErrIncomplete}

\* C4: with a stored profile that is not premium but has allergens or restrictions,
\* the ingredient gate does not run: no detection, no substitution, and the accepted
\* recipe is the formatted one.
C4_NonPremiumSkipsIngredientGate ==
  \A r \in Reqs :
    (HasConstraints(req[r].profile) /\ ~req[r].profile.isPremium)
      => /\ ~req[r].detectRan
         /\ req[r].pc # "substitute"
         /\ (Accepted(r) => req[r].recipeData = req[r].formatted)

\* C5: the candidates are fetched one at a time in search order, candidate i+1 only
\* after candidate i failed, and none after one has been accepted.
C5_CandidatesInOrder ==
  \A r \in Reqs :
    LET s == req[r]
    IN /\ s.pc \in {"scrape", "format", "substitute", "query"}
            => /\ s.i \in 1..Len(s.searchResults)
               /\ s.fetched = SubSeq(s.searchResults, 1, s.i)
               /\ (s.i > 1 => s.failure.at = s.i - 1)
       /\ s.pc \in {"scrape", "format", "substitute"} => s.successfulUrl = NoUrl
       /\ s.pc = "query" => s.successfulUrl = s.searchResults[s.i]

C5_Witness ==
  \E r \in Reqs :
    /\ Accepted(r) /\ req[r].i = 2 /\ Len(req[r].fetched) = 2
    /\ req[r].failure.at = 1

\* C6: a failure while processing candidate i only disqualifies candidate i: the
\* request does not end in an error before every candidate has been attempted.
C6_FailureOnlyDisqualifiesCandidate ==
  \A r \in Reqs :
    (req[r].pc = "respond" /\ req[r].outcome \in {"error", "exhausted"})
      => Len(req[r].fetched) = Len(req[r].searchResults)

C8_LastErrorIsLastCandidates ==
  \A r \in Reqs :
    (req[r].pc = "respond" /\ req[r].outcome = "exhausted")
      => /\ req[r].failure.at = Len(req[r].searchResults)
         /\ req[r].lastError = req[r].failure.err
         /\ req[r].lastError # NoError
         /\ req[r].details = req[r].failure.err

C8_Witness ==
  \E r \in Reqs :
    /\ req[r].pc = "respond" /\ req[r].outcome = "exhausted"
    /\ Len(req[r].searchResults) = 2
    /\ req[r].lastError = ErrEquipment
    /\ req[r].recipeData.defined

C10_RaceCreatesBoundedDuplicates ==
  \A r \in Reqs :
    Resolved(r) =>
      LET same == {q \in Reqs : Resolved(q) /\ KeyOf(q) = KeyOf(r)}
          stored == StoredFor(KeyOf(r))
      IN /\ Cardinality(stored) >= 1
         /\ Cardinality(stored) <= Cardinality(same)
         /\ req[r].recipe \in {Key(rec) : rec \in stored}

C10_Witness ==
  \E r1 \in Reqs : \E r2 \in Reqs \ {r1} :
    /\ Resolved(r1) /\ Resolved(r2)
    /\ KeyOf(r1) = KeyOf(r2)
    /\ req[r1].created # 0 /\ req[r2].created # 0
    /\ Cardinality(StoredFor(KeyOf(r1))) = 2

\* C11: once the caller's deadline has expired during a candidate attempt, the loop
\* starts no candidate after the one in flight, and the request ends in Exhausted
\* with a lastError that the handler classifies as a timeout.
C11_DeadlineStopsAtBoundary ==
  \A r \in Reqs :
    (req[r].deadline.expired /\ req[r].deadline.at >= 1) =>
      /\ req[r].pc \in {"scrape", "format", "substitute"} => req[r].i = req[r].deadline.at
      /\ req[r].pc = "respond" =>
            /\ req[r].outcome = "exhausted"
            /\ userMessage(req[r].lastError) \in {"network timeout", "formatting took too long"}

\* C12: the first search of a request is the strict one; a relaxed search follows
\* only a search that threw or returned nothing, and only for a premium profile with
\* an allergen or a restriction; for any other profile a failed strict search is the
\* only search made before the error response.
C12_StrictThenRelaxed ==
  \A r \in Reqs :
    LET s == req[r]
        premiumWithConstraints == s.profile.isPremium /\ HasConstraints(s.profile)
    IN /\ s.pc = "search" => s.searches = <<>>
       /\ s.searches # <<>> => ~s.searches[1].relaxed
       /\ \A k \in 2..Len(s.searches) :
            /\ s.searches[k].relaxed
            /\ ~s.searches[k - 1].found
            /\ premiumWithConstraints
       /\ s.pc \in {"relaxed", "relaxedEmpty"} =>
            /\ s.searches # <<>>
            /\ ~s.searches[Len(s.searches)].found
            /\ premiumWithConstraints
       /\ (s.pc = "respond" /\ s.outcome = "searchFailed" /\ ~premiumWithConstraints)
            => (Len(s.searches) = 1 /\ ~s.searches[1].found)

C12_Witness ==
  \E r \in Reqs :
    /\ req[r].pc = "respond" /\ req[r].outcome = "searchFailed"
    /\ Len(req[r].searches) = 2
    /\ req[r].searches[2].relaxed /\ ~req[r].searches[1].found

\* C13: no candidate that searchRecipe returns, from the JSON array or from the URLs
\* extracted from the text, is on a domain of blocked_domains.
C13_NoCandidateOnBlockedDomain ==
  \A r \in Reqs :
    (req[r].call.made /\ req[r].call.result.ok)
      => \A k \in DOMAIN req[r].call.result.results :
           hostname(req[r].call.result.results[k]) \notin blocked_domains

\* C14: a request that ends in a search failure or in Exhausted has written to no
\* container: the only writes of a request are those of the resolver after Success.
C14_FailedRequestWritesNothing ==
  \A r \in Reqs :
    (req[r].pc = "respond" /\ req[r].outcome \in {"searchFailed", "exhausted"})
      => req[r].writes = {}

\* C15: formatRecipe is called only with scraped content of 200 characters or more;
\* missing or shorter content fails the candidate with lastError set and the loop at
\* the next candidate, and content of 200 characters is never rejected as too short.
C15_ShortContentIsAFailure ==
  \A r \in Reqs :
    LET s == req[r]
    IN /\ (s.pc \in {"format", "substitute"} \/ (s.pc = "query" /\ s.formatted.defined))
            => s.content >= 200
       /\ \A n \in {0, 199} :
            (s.failure.err = ErrTooShort(n) /\ s.pc \in {"scrape", "format", "substitute", "respond"})
              => /\ s.lastError = ErrTooShort(n)
                 /\ s.i = s.failure.at + 1
       /\ s.failure.err # ErrTooShort(200)

C15_Witness ==
  \E r \in Reqs :
    /\ req[r].pc = "format" /\ req[r].content = 200
    /\ req[r].i = 2 /\ req[r].failure.err = ErrTooShort(199)

\* C16: within one call of content acquisition only a network or 5xx error is
\* followed by another attempt, at most 2 times, so a 4xx response ends the call at
\* once; and the loop calls content acquisition once per candidate, never again for
\* a candidate that failed.
C16_RetriesOnlyInsideAcquisition ==
  \A r \in Reqs :
    LET s == req[r]
    IN /\ \A k \in DOMAIN s.attempts : s.attempts[k] = "transient"
       /\ Len(s.attempts) <= 2
       /\ \A k \in 1..(Len(s.lastCall) - 1) : s.lastCall[k] = "transient"
       /\ Len(s.lastCall) <= 3
       /\ s.pc \in {"scrape", "format", "substitute", "query"} => Len(s.fetched) = s.i
       /\ (s.pc = "respond" /\ s.outcome = "exhausted")
            => Len(s.fetched) = Len(s.searchResults)

C16_Witness ==
  \E r \in Reqs :
    /\ req[r].pc = "scrape" /\ req[r].i = 2
    /\ req[r].attempts = <<"transient">>
    /\ req[r].lastCall = <<"4xx">>
    /\ req[r].failure = [at |-> 1, err |-> ErrForbidden]

\* C17: no step changes the recipeData, the id, the userID or the sourceUrlLower of
\* a stored recipe, neither a PATCH nor a resolution that reuses the record.
C17_Step ==
  \A rec \in recipes : \A rec2 \in recipes' :
    rec2.id = rec.id
      => /\ rec2.recipeData = rec.recipeData
         /\ rec2.userID = rec.userID
         /\ rec2.sourceUrlLower = rec.sourceUrlLower

C17_StoredRecipeIsImmutable == [][C17_Step]_vars

C17_Witness ==
  \E r \in Reqs : \E rec \in recipes :
    /\ req[r].pc = "respond" /\ req[r].outcome = "success" /\ req[r].created = 0
    /\ rec.id = req[r].recipe.id
    /\ rec.isSaved /\ rec.userPortionSize = 2

\* C18: on success the source URL is the URL of the candidate whose content was
\* formatted into the accepted recipeData: it is the candidate the loop stopped at, the
\* last one fetched, formatRecipe returned for it, and recipeData is that result or
\* its substitution; the candidate echoed in the response has that URL; a created
\* record holds that recipeData under the lower-case form of that URL.
C18_SourceOfAcceptedRecipe ==
  \A r \in Reqs :
    LET s == req[r]
    IN /\ s.pc = "query"
            => /\ s.i \in 1..Len(s.searchResults)
               /\ s.successfulUrl = s.searchResults[s.i]
               /\ s.fetched # <<>>
               /\ s.fetched[Len(s.fetched)] = s.successfulUrl
               /\ s.content >= MinContentLength
               /\ s.formatted.defined
               /\ \/ s.recipeData = s.formatted
                  \/ s.substituted /\ s.disallowed # {}
               /\ successfulSearchResult(s) = s.successfulUrl
       /\ (s.pc \in {"resolve", "respond"} /\ s.successfulUrl # NoUrl)
            => s.searchResult = s.successfulUrl
       /\ (s.pc = "respond" /\ s.outcome = "success" /\ s.created # 0)
            => \E rec \in recipes :
                 /\ rec.id = s.created
                 /\ rec.sourceUrlLower = toLowerCase(s.successfulUrl)
                 /\ rec.recipeData = s.recipeData

\* a candidate is accepted after an earlier candidate with another URL was formatted
\* and rejected by the equipment gate
C18_Witness ==
  \E r \in Reqs :
    LET s == req[r]
    IN /\ s.pc = "query" /\ s.i = 2
       /\ s.failure = [at |-> 1, err |-> ErrEquipment]
       /\ s.searchResults[1] # s.searchResults[2]
       /\ s.recipeData # RTofuFryer

\* C19: when the duplicate query of a request with a premium profile finds stored
\* records for (userID, lower-case URL), the one that is reused and returned passes the
\* equipment gate and the ingredient gate against the profile snapshot of this request.
C19_QueryStep ==
  \A r \in Reqs :
    (req[r].pc = "query" /\ req'[r].pc = "resolve"
       /\ req[r].profile.present /\ req[r].profile.isPremium)
      => \A rec \in req'[r].existingRecipes :
           /\ ~requiresUnavailableEquipment(rec.recipeData, req[r].profile)
           /\ detectDisallowedIngredients(rec.recipeData, req[r].profile) = {}

C19_ReusedRecipePassesCurrentGates == [][C19_QueryStep]_vars

\* C20: the equipment gate reads the instructions only: its result is the one it gives
\* for the same recipe without title and description, and a recipe with no
\* instructions is not rejected.
C20_EquipmentGateReadsInstructionsOnly ==
  \A r \in Reqs :
    LET g == req[r].gateCall
    IN g.made
         => /\ g.result = requiresUnavailableEquipment_allText(
                             [g.recipeData EXCEPT !.title = <<>>, !.description = <<>>],
                             g.profile)
            /\ (g.recipeData.instructions = <<>> => ~g.result)

\* C21: requiresUnavailableEquipment returns true exactly when a specialty-equipment
\* term found in the recipe and an entry of profile.unavailableEquipment are, in lower
\* case, equal or one contained in the other; it returns false when the list is empty
\* or no specialty term is found.  (The term may be found in any text of the recipe
\* here: which texts are read is C20.)
C21_RequiresExactlyOnSpecialtyMatch ==
  \A r \in Reqs :
    LET g == req[r].gateCall
        text == toLowerCase(join(<<g.recipeData.title, g.recipeData.description>>
                                   \o g.recipeData.instructions))
        specialty == {toLowerCase(eq) : eq \in {kw \in Range(SPECIALTY_EQUIPMENT) :
                                                  includes(text, toLowerCase(kw))}}
        unavailableLower == {toLowerCase(eq) : eq \in g.profile.unavailableEquipment}
    IN g.made
         => (g.result <=> \E eq \in specialty : \E un \in unavailableLower :
                            eq = un \/ includes(eq, un) \/ includes(un, eq))

\* C22: while a search call of a request whose profile has unavailable equipment is
\* in flight, strict or relaxed, premium or not, the prompt carries the instruction to
\* exclude the recipes that need that equipment.
C22_EverySearchExcludesEquipment ==
  \A r \in Reqs :
    LET s == req[r]
    IN (s.pc \in {"search", "relaxed", "relaxedEmpty"}
          /\ s.profile.present /\ s.profile.unavailableEquipment # {})
         => /\ s.request.sent
            /\ s.request.equipmentNote = s.profile.unavailableEquipment

\* the text of the suffix for a proficiency level
ProficiencySuffix(level) ==
  CASE level = 1 -> <<"easy", "kid", "friendly">>
    [] level = 2 -> <<"easy">>
    [] OTHER -> <<>>

\* C23: in every search call of a request, strict or relaxed, the query sent is the
\* intent's query, followed by the suffix of the proficiency level when the profile is
\* handed to the search and by nothing otherwise; the intent's query stays as it was
\* drawn.
C23_SuffixAppendedAtMostOnce ==
  \A r \in Reqs :
    LET s == req[r]
    IN s.pc \in {"search", "relaxed", "relaxedEmpty"}
         => /\ s.request.sent
            /\ s.request.allowSubstitutions = (s.pc # "search")
            /\ s.searchQuery \in SearchQueries
            /\ s.request.query
                 \in {s.searchQuery,
                      s.searchQuery \o ProficiencySuffix(s.profile.cookingProficiency)}
            /\ (s.profile.present /\ s.profile.isPremium)
                 => s.request.query
                      = s.searchQuery \o ProficiencySuffix(s.profile.cookingProficiency)

\* the relaxed call of a beginner's request is in flight
C23_Witness ==
  \E r \in Reqs :
    /\ req[r].pc = "relaxed"
    /\ req[r].profile.cookingProficiency = 1
    /\ req[r].request.query = req[r].searchQuery \o <<"easy", "kid", "friendly">>

\* C24: a resolution that reuses a stored record writes it only when it has no
\* conversationID, and then with the conversationID of the request; a record that has
\* one is left as it is and nothing is written to the recipes.
C24_ResolveStep ==
  \A r \in Reqs :
    (req[r].pc = "resolve" /\ req'[r].pc = "respond" /\ req[r].existingRecipes # {})
      => /\ nextId' = nextId
         /\ \E rec \in req[r].existingRecipes :
              /\ rec.id = req'[r].recipe.id
              /\ IF rec.conversationID = ""
                 THEN /\ recipes' = {x \in recipes : x.id # rec.id}
                                      \cup {[rec EXCEPT !.conversationID = req[r].conversationID]}
                      /\ req'[r].writes = req[r].writes \cup {"recipes"}
                 ELSE /\ recipes' = recipes
                      /\ req'[r].writes = req[r].writes

C24_ReuseLinksOnlyWhenAbsent == [][C24_ResolveStep]_vars

\* a reused record that had no conversationID has been linked
C24_Witness ==
  \E r \in Reqs : \E rec \in recipes :
    /\ req[r].pc = "respond" /\ req[r].outcome = "success" /\ req[r].created = 0
    /\ "recipes" \in req[r].writes
    /\ rec.id = req[r].recipe.id
    /\ rec.conversationID = req[r].conversationID

\* C30: the store holds at most one record for a (userID, sourceUrlLower).
C30_OneRecipePerUserAndUrl ==
  \A rec1 \in recipes : \A rec2 \in recipes :
    (rec1.userID = rec2.userID /\ rec1.sourceUrlLower = rec2.sourceUrlLower)
      => rec1.id = rec2.id

\* C25: on exhaustion the message is chosen from the text of lastError alone, by the
\* first of these that applies: 'formatting timed out' or 'format recipe'; '403' or
\* 'forbidden'; 'timeout' or 'Network'; '404'; otherwise the generic message.
C25_MessageByFirstMatch ==
  \A r \in Reqs :
    LET s == req[r]
        text == IF s.lastError = NoError THEN <<>> ELSE s.lastError
        formatting == includes(text, <<"formatting", "timed", "out">>)
                        \/ includes(text, <<"format", "recipe">>)
        blocked == includes(text, <<"403">>) \/ includes(text, <<"forbidden">>)
        network == includes(text, <<"timeout">>) \/ includes(text, <<"Network">>)
        notFound == includes(text, <<"404">>)
    IN (s.pc = "respond" /\ s.outcome = "exhausted")
         => /\ formatting => s.message = "formatting took too long"
            /\ (~formatting /\ blocked) => s.message = "websites are blocking access"
            /\ (~formatting /\ ~blocked /\ network) => s.message = "network timeout"
            /\ (~formatting /\ ~blocked /\ ~network /\ notFound)
                 => s.message = "pages not found"
            /\ (~formatting /\ ~blocked /\ ~network /\ ~notFound)
                 => s.message = "unable to access"

\* an exhaustion whose lastError names a timeout and a 403
C25_Witness ==
  \E r \in Reqs :
    /\ req[r].pc = "respond" /\ req[r].outcome = "exhausted"
    /\ req[r].lastError = <<"timeout", "403">>
    /\ req[r].message = "websites are blocking access"

\* C26: a request whose intent is off_topic is answered with the 400 response: no
\* search call is made for it, nothing is fetched or formatted, it writes to no
\* container, and the step that reads the intent leaves the conversations and the
\* recipes as they were.
C26_OffTopicState ==
  \A r \in Reqs :
    LET s == req[r]
    IN s.intentStatus = "off_topic"
         => /\ s.pc = "respond" /\ s.outcome = "offTopic"
            /\ ~s.request.sent /\ s.searches = <<>> /\ s.searchResults = <<>>
            /\ s.fetched = <<>> /\ ~s.formatted.defined /\ ~s.recipeData.defined
            /\ s.writes = {}

C26_OffTopicStep ==
  \A r \in Reqs :
    (req[r].pc = "idle" /\ req'[r].intentStatus = "off_topic")
      => /\ conversations' = conversations
         /\ recipes' = recipes
         /\ nextId' = nextId

C26_OffTopicStopsBeforeAnyCall == [] C26_OffTopicState /\ [][C26_OffTopicStep]_vars

\* the 400 response of an off-topic request whose conversation is still as created
C26_Witness ==
  \E r \in Reqs :
    /\ req[r].pc = "respond" /\ req[r].outcome = "offTopic"
    /\ req[r].intentStatus = "off_topic"
    /\ conversations[req[r].conversationID] = NewConversation

\* C27: for a response text that is not empty and not JSON with an entry that has a
\* url and a title, searchRecipe returns candidates exactly when the text holds a URL:
\* the list is not empty, every candidate is a URL of the text (with the scheme put in
\* front of a bare domain) and has the query as its title.  It throws when the text is
\* empty or holds no URL.
C27_FallbackSalvagesUrls ==
  \A r \in Reqs :
    LET call == req[r].call
        text == call.resultText
        urls == {text.mentions[k].url : k \in DOMAIN text.mentions} \ {<<>>}
    IN (call.made /\ ~(text.kind = "json" /\ validResults(text.mentions) # <<>>))
         => /\ call.result.ok <=> (text.kind # "empty" /\ urls # {})
            /\ call.result.ok
                 => /\ call.result.results # <<>>
                    /\ \A k \in DOMAIN call.result.results :
                         /\ \E url \in urls : call.result.results[k] = cleanUrl(url)
                         /\ call.result.titles[k] = "searchQuery"
            /\ ~call.result.ok => call.result.results = <<>>

\* JSON whose only entry has no title and a URL that is not recipe-like: the candidate
\* is salvaged from the text
C27_Witness ==
  \E r \in Reqs :
    /\ req[r].call.made
    /\ req[r].call.resultText
         = [kind |-> "json",
            mentions |-> << [url |-> <<"https://", "example.org", "about">>,
                             title |-> FALSE] >>]
    /\ req[r].call.result.results = << <<"https://", "example.org", "about">> >>

\* C28: a request that had candidates ends in Success or in Exhausted.
C28_EndsInSuccessOrExhausted ==
  \A r \in Reqs :
    (req[r].pc = "respond" /\ req[r].searchResults # <<>>)
      => req[r].outcome \in {"success", "exhausted"}

\* C29: PATCH changes only the lifecycle fields that the request carries: isSaved
\* changes only when the body has it, a body with isSaved and no userPortionSize
\* leaves the stored userPortionSize as it was, and a stored userPortionSize is
\* removed only by a body that sends null.
C29_PatchChangesOnlyFieldsSent ==
  \A r \in Reqs :
    LET p == req[r].patchCall
    IN p.made
         => /\ ~p.body.isSaved.given => p.result.isSaved = p.recipe.isSaved
            /\ (p.body.isSaved.given /\ p.body.userPortionSize.type = "undefined")
                 => p.result.userPortionSize = p.recipe.userPortionSize
            /\ (p.recipe.userPortionSize # 0 /\ p.result.userPortionSize = 0)
                 => p.body.userPortionSize.type = "null"

====
